---- MODULE Spec2Model ----
(***************************************************************************)
(* The call-progress tracker of examples/phone-chatbot/app.py: the global  *)
(* call_state dictionary, the POST /twilio handler (handle_call), the POST *)
(* /end handler (end_call) and log_summary, which logs the call summary    *)
(* and resets call_state.                                                  *)
(*                                                                         *)
(* Python values are modelled with their type, [t |-> type, v |-> value],  *)
(* because log_summary resets each field by its type (isinstance).  Times  *)
(* are whole seconds; a datetime is the number of seconds since the        *)
(* process started, a timedelta's total_seconds() is a float.              *)
(***************************************************************************)
EXTENDS Integers, Sequences, FiniteSets, TLC

\* ------------------------------------------------------------------ bounds
\* The clock stops advancing at MaxClock seconds.
MaxClock == 20
\* No more than MaxUtterances speech events and MaxSilences silence events
\* are delivered to one session.
MaxUtterances == 2
MaxSilences == 4
\* The history keeps the last TraceLen request/response exchanges.
TraceLen == 5
\* Under gunicorn the history keeps the last PairLen exchanges.
PairLen == 2
\* No more than MaxInFlight /twilio requests are in flight at once.
MaxInFlight == 2
\* Once the caller is silent the polls go on for PollWindow seconds past
\* MaxClock.
PollWindow == 20

\* Seconds that pass between two requests.
TickSteps == {5, 9}
\* Seconds between handle_call's clock read (line 156) and log_summary's
\* (line 233).
SummaryLags == {0, 1}

\* ----------------------------------------------------------- Python values
PyNone == [t |-> "NoneType", v |-> 0]
PyInt(n) == [t |-> "int", v |-> n]
PyFloat(n) == [t |-> "float", v |-> n]
PyDatetime(n) == [t |-> "datetime", v |-> n]
PyTrue == [t |-> "bool", v |-> 1]

\* isinstance(x, int)
IsInstanceInt(x) == x.t = "int"

\* x += 1 raises TypeError for None
AddRaises(x) == x.t \notin {"int", "float"}

\* format(x, ".2f") raises TypeError for None and works for int and float
FormatRaises(x) == x.t \notin {"int", "float"}

\* ------------------------------------------------------------------- state
VARIABLES
    call_state,  \* the global dictionary
    clock,       \* what datetime.utcnow() returns
    request,     \* the last request handled
    response,    \* the response to it
    summary,     \* what log_summary logged while handling it
    before,      \* call_state as the last request found it
    tracing,     \* how many exchanges are kept in trace (0: none)
    trace,       \* the last recorded exchanges, oldest first
    signature,   \* what twilio_validator.validate said of the last request
    idle,        \* the call_state of the other worker processes
    pending,     \* the /twilio handlers suspended at an await
    silent       \* whether the caller has stopped speaking for good

vars == <<call_state, clock, request, response, summary, before, tracing, trace,
          signature, idle, pending, silent>>

InitialCallState ==
    [ start_time |-> PyNone,
      silence_events |-> PyInt(0),
      user_utterances |-> PyInt(0),
      unanswered_prompts |-> PyInt(0),
      last_speech_time |-> PyNone,
      silence_duration |-> PyInt(0) ]

\* The form fields of a /twilio request that the handler reads: whether
\* SpeechResult is present, and its text.
FormData ==
    { [present |-> FALSE, SpeechResult |-> ""],
      [present |-> TRUE, SpeechResult |-> ""],
      [present |-> TRUE, SpeechResult |-> "hello"] }

NoData == [present |-> FALSE, SpeechResult |-> ""]

\* ---------------------------------------------------------------- responses
NoText == "<None>"

TwilioResponse(text, pause, next_prompt, end) ==
    [ status |-> 200, response |-> text, pause |-> pause,
      next_prompt |-> next_prompt, end_call |-> end ]

GreetResponse ==
    TwilioResponse("Hello! This is your AI phone assistant.", PyInt(5), NoText, PyNone)

AckResponse(speech) ==
    TwilioResponse("You said: " \o speech, PyInt(5), "Do you want to continue?", PyNone)

GoodbyeSilenceResponse ==
    TwilioResponse("No response detected after multiple attempts. Goodbye.",
                   PyNone, NoText, PyTrue)

QuietResponse ==
    TwilioResponse("I notice you've been quiet for a while. Are you still there?",
                   PyInt(5), NoText, PyNone)

StillThereResponse ==
    TwilioResponse("Are you still there?", PyInt(5), NoText, PyNone)

ApologyResponse ==
    TwilioResponse("I apologize, but I'm having trouble processing your request. Please try again.",
                   PyInt(5), NoText, PyNone)

EndResponse ==
    TwilioResponse("Call ending. Goodbye.", PyNone, NoText, PyTrue)

\* raise HTTPException(status_code=500, ...)
ErrorResponse ==
    [ status |-> 500, response |-> "error", pause |-> PyNone,
      next_prompt |-> NoText, end_call |-> PyNone ]

NoResponse ==
    [ status |-> 0, response |-> "", pause |-> PyNone,
      next_prompt |-> NoText, end_call |-> PyNone ]

\* ------------------------------------------------------------- log_summary
NotLogged == [t |-> "unlogged", v |-> 0]

NoSummary ==
    [ duration |-> NotLogged, silence_events |-> NotLogged,
      silence_duration |-> NotLogged, user_utterances |-> NotLogged,
      unanswered_prompts |-> NotLogged ]

\* Mutant: the reset loop sets every field to None.
ResetAllNone(cs) == [k \in DOMAIN cs |-> PyNone]

\* Mutant: the reset loop skips last_speech_time.
ResetKeepsSpeechTime(cs) ==
    [k \in DOMAIN cs |->
        IF k = "last_speech_time" THEN cs[k]
        ELSE IF IsInstanceInt(cs[k]) THEN PyInt(0) ELSE PyNone]

\* The reset loop: each field becomes 0 if it holds an int and None otherwise.
ResetState(cs) ==
    [k \in DOMAIN cs |-> IF IsInstanceInt(cs[k]) THEN PyInt(0) ELSE PyNone]

\* log_summary with the clock reading `now`: the state it leaves, the lines
\* it logged and whether an exception was raised inside (and swallowed by)
\* its try block.
log_summary(cs, now) ==
    IF cs.start_time.t # "datetime"
    THEN \* utcnow() - None raises TypeError before anything is logged
         [state |-> cs, logged |-> NoSummary, raised |-> TRUE]
    ELSE IF FormatRaises(cs.silence_duration)
    THEN \* the third line's format raises; two lines are out, no reset
         [state |-> cs,
          logged |-> [NoSummary EXCEPT
                        !.duration = PyFloat(now - cs.start_time.v),
                        !.silence_events = cs.silence_events],
          raised |-> TRUE]
    ELSE [state |-> ResetState(cs),
          logged |-> [ duration |-> PyFloat(now - cs.start_time.v),
                       silence_events |-> cs.silence_events,
                       silence_duration |-> cs.silence_duration,
                       user_utterances |-> cs.user_utterances,
                       unanswered_prompts |-> cs.unanswered_prompts ],
          raised |-> FALSE]

\* ------------------------------------------------------------- handle_call
\* if silence_duration >= 10
SilenceLimit == 10
\* if call_state["unanswered_prompts"] >= 3
PromptLimit == 3

\* Mutant: the comparison written > instead of >=.
LongSilenceStrict(silence_duration) == silence_duration > SilenceLimit

\* Mutant: any silence counts as a long one.
LongSilenceAlways(silence_duration) == silence_duration >= 0

LongSilence(silence_duration) == silence_duration >= SilenceLimit

\* Mutant: the comparison written == instead of >=.
ThresholdReachedExact(unanswered_prompts) == unanswered_prompts = PromptLimit

ThresholdReached(unanswered_prompts) == unanswered_prompts >= PromptLimit

\* if speech_result: a present, non-empty SpeechResult
SpeechDetected(data) == data.present /\ data.SpeechResult # ""

Handled(cs, resp, logged) == [state |-> cs, response |-> resp, logged |-> logged]

\* Mutant: the first webhook does not set last_speech_time.
StartBranchNoSpeechTime(cs, current_time) ==
    Handled([cs EXCEPT !.start_time = PyDatetime(current_time)],
            GreetResponse, NoSummary)

\* First webhook of a call: call_state["start_time"] is None
StartBranch(cs, current_time) ==
    Handled([cs EXCEPT !.start_time = PyDatetime(current_time),
                       !.last_speech_time = PyDatetime(current_time)],
            GreetResponse, NoSummary)

\* Mutant: speech does not reset unanswered_prompts.
SpeechBranchKeepsPrompts(cs, data, current_time) ==
    Handled([cs EXCEPT !.user_utterances = PyInt(@.v + 1),
                       !.last_speech_time = PyDatetime(current_time),
                       !.silence_duration = PyInt(0)],
            AckResponse(data.SpeechResult), NoSummary)

\* Mutant: speech does not record its time.
SpeechBranchNoTime(cs, data, current_time) ==
    Handled([cs EXCEPT !.user_utterances = PyInt(@.v + 1),
                       !.unanswered_prompts = PyInt(0),
                       !.silence_duration = PyInt(0)],
            AckResponse(data.SpeechResult), NoSummary)

\* Mutant: speech writes its time to start_time instead of last_speech_time.
SpeechBranchWrongField(cs, data, current_time) ==
    Handled([cs EXCEPT !.user_utterances = PyInt(@.v + 1),
                       !.unanswered_prompts = PyInt(0),
                       !.start_time = PyDatetime(current_time),
                       !.silence_duration = PyInt(0)],
            AckResponse(data.SpeechResult), NoSummary)

SpeechBranch(cs, data, current_time) ==
    Handled([cs EXCEPT !.user_utterances = PyInt(@.v + 1),
                       !.unanswered_prompts = PyInt(0),
                       !.last_speech_time = PyDatetime(current_time),
                       !.silence_duration = PyInt(0)],
            AckResponse(data.SpeechResult), NoSummary)

\* Mutant: a long silence is counted once, like a short one.
SilenceBranchSingleCount(cs, current_time, later) ==
    LET counted == [cs EXCEPT !.silence_events = PyInt(@.v + 1),
                              !.unanswered_prompts = PyInt(@.v + 1)]
    IN  IF counted.last_speech_time.t = "datetime"
        THEN LET silence_duration == current_time - counted.last_speech_time.v
                 timed == [counted EXCEPT !.silence_duration = PyFloat(silence_duration)]
             IN  IF LongSilence(silence_duration)
                 THEN IF ThresholdReached(timed.unanswered_prompts.v)
                      THEN LET done == log_summary(timed, later)
                           IN  Handled(done.state, GoodbyeSilenceResponse, done.logged)
                      ELSE Handled(timed, QuietResponse, NoSummary)
                 ELSE Handled(timed, StillThereResponse, NoSummary)
        ELSE Handled(counted, StillThereResponse, NoSummary)

\* The else branch; `later` is the clock when log_summary reads it.
SilenceBranch(cs, current_time, later) ==
    LET counted == [cs EXCEPT !.silence_events = PyInt(@.v + 1),
                              !.unanswered_prompts = PyInt(@.v + 1)]
    IN  IF counted.last_speech_time.t = "datetime"
        THEN LET silence_duration == current_time - counted.last_speech_time.v
                 timed == [counted EXCEPT !.silence_duration = PyFloat(silence_duration)]
             IN  IF LongSilence(silence_duration)
                 THEN LET twice == [timed EXCEPT !.unanswered_prompts = PyInt(@.v + 1)]
                      IN  IF ThresholdReached(twice.unanswered_prompts.v)
                          THEN LET done == log_summary(twice, later)
                               IN  Handled(done.state, GoodbyeSilenceResponse, done.logged)
                          ELSE Handled(twice, QuietResponse, NoSummary)
                 ELSE Handled(timed, StillThereResponse, NoSummary)
        ELSE Handled(counted, StillThereResponse, NoSummary)

\* The exception leaves the handler: the caller gets an HTTP 500.
FailedRaises(cs) == Handled(cs, ErrorResponse, NoSummary)

\* The except branch: the exception is logged and the apology returned; what
\* was written to call_state before the exception stays written.
Failed(cs) == Handled(cs, ApologyResponse, NoSummary)

\* The handler from the start_time test on, `first` being what the test
\* call_state["start_time"] is None found.  A += on a field that holds None
\* raises TypeError, which the except branch answers.
Body(first, cs, data, current_time, later) ==
    IF first
    THEN StartBranch(cs, current_time)
    ELSE IF SpeechDetected(data)
         THEN IF AddRaises(cs.user_utterances)
              THEN Failed(cs)
              ELSE SpeechBranch(cs, data, current_time)
         ELSE IF AddRaises(cs.silence_events)
              THEN Failed(cs)
              ELSE IF AddRaises(cs.unanswered_prompts)
                   THEN Failed([cs EXCEPT !.silence_events = PyInt(@.v + 1)])
                   ELSE SilenceBranch(cs, current_time, later)

handle_call(cs, data, current_time, later) ==
    Body(cs.start_time = PyNone, cs, data, current_time, later)

\* ---------------------------------------------------------------- end_call
\* log_summary swallows its own exceptions, so the except branch of end_call
\* (HTTP 500) is taken only if log_summary lets one out.
\* Mutant: log_summary without its try/except.
LogSummaryUnguarded == TRUE

LogSummaryPropagates == FALSE

end_call(cs, now) ==
    LET done == log_summary(cs, now)
    IN  IF done.raised /\ LogSummaryPropagates
        THEN Handled(done.state, ErrorResponse, done.logged)
        ELSE Handled(done.state, EndResponse, done.logged)

\* ------------------------------------------------------------------ events
\* A request: its endpoint, whether request.form() could read it, the form
\* fields and the clock when it was handled.
Request(endpoint, readable, data, time) ==
    [endpoint |-> endpoint, readable |-> readable, data |-> data, time |-> time]

NoRequest == Request("none", FALSE, NoData, 0)

\* The tracker event a request stands for, given the state it finds.
EventOf(req, cs) ==
    IF req.endpoint = "none" THEN "None"
    ELSE IF req.endpoint = "/end" THEN "ExplicitEnd"
    ELSE IF ~req.readable THEN "Malformed"
    ELSE IF cs.start_time = PyNone THEN "Start"
    ELSE IF SpeechDetected(req.data) THEN "SpeechRecognized"
    ELSE "Silence"

\* The decision a response stands for.
Decision(resp) ==
    IF resp.status # 200 THEN "Error"
    ELSE IF resp.end_call = PyTrue THEN "Terminate"
    ELSE IF resp = GreetResponse THEN "Greet"
    ELSE IF resp.next_prompt # NoText THEN "Acknowledge"
    ELSE IF resp = ApologyResponse THEN "Apology"
    ELSE "Reprompt"

Exchange(req, cs, resp) ==
    [event |-> EventOf(req, cs), speech |-> req.data.SpeechResult,
     decision |-> Decision(resp), response |-> resp.response]

Remember(tr, entry) ==
    LET all == Append(tr, entry)
    IN  IF Len(all) > tracing THEN Tail(all) ELSE all

\* A session exists.
Active(cs) == cs.start_time # PyNone

\* ----------------------------------------------------------------- actions
\* workers = 2 in gunicorn.conf.py: each worker process imports app.py and
\* has its own call_state.
Workers == 2

\* The awaits of handle_call: `await request.form()` is the only one, and it
\* comes before the first use of call_state.  "check" stands for an await
\* between the start_time test and the writes that follow it.
\* Mutant: the handler awaits after the start_time test.
AwaitPointsAfterCheck == {"form", "check"}

AwaitPoints == {"form"}

InitState ==
    /\ call_state = InitialCallState
    /\ clock = 0
    /\ request = NoRequest
    /\ response = NoResponse
    /\ summary = NoSummary
    /\ before = InitialCallState
    /\ trace = << >>
    /\ signature = "unchecked"
    /\ pending = << >>
    /\ silent = FALSE

\* `processes` worker processes, the last `window` exchanges recorded.
Started(processes, window) ==
    /\ InitState
    /\ tracing = window
    /\ idle = [i \in 1..(processes - 1) |-> InitialCallState]

\* uvicorn.run(app): one process.
Init == Started(1, 0)

InitTraced == Started(1, TraceLen)

InitGunicorn == Started(Workers, PairLen)

\* Time passes between requests.
Tick ==
    /\ ~silent
    /\ \E d \in TickSteps :
          /\ clock + d <= MaxClock
          /\ clock' = clock + d
    /\ UNCHANGED <<call_state, request, response, summary, before, tracing, trace,
                   signature, idle, pending, silent>>

\* The bound on the events delivered to one session.
Deliverable(cs, data) ==
    \/ cs.start_time = PyNone
    \/ SpeechDetected(data) /\ cs.user_utterances.v < MaxUtterances
    \/ ~SpeechDetected(data) /\ cs.silence_events.v < MaxSilences

\* What every request records of itself.
Served(req, r) ==
    /\ call_state' = r.state
    /\ response' = r.response
    /\ summary' = r.logged
    /\ request' = req
    /\ before' = call_state
    /\ trace' = Remember(trace, Exchange(req, call_state, r.response))
    /\ UNCHANGED <<tracing, idle, silent>>

\* Lines 138-150: the verdict of twilio_validator.validate is logged; the
\* raise of HTTP 403 is commented out and the request proceeds either way.
Verdict(valid) == IF valid THEN "valid" ELSE "invalid"

\* POST /twilio handled in one turn of the event loop, its signature valid
\* or not.
Twilio(valid) ==
    /\ ~silent
    /\ \E data \in FormData, lag \in SummaryLags :
          /\ Deliverable(call_state, data)
          /\ clock + lag <= MaxClock
          /\ LET r == handle_call(call_state, data, clock, clock + lag)
             IN  /\ r.response # GoodbyeSilenceResponse => lag = 0
                 /\ clock' = clock + lag
                 /\ signature' = Verdict(valid)
                 /\ Served(Request("/twilio", TRUE, data, clock), r)
    /\ UNCHANGED pending

\* POST /twilio signed by Twilio
TwilioRequest == Twilio(TRUE)

\* POST /twilio whose X-Twilio-Signature does not validate
TwilioUnsigned == Twilio(FALSE)

\* POST /twilio whose form cannot be read: request.form() raises and the
\* except branch answers.
TwilioMalformed ==
    /\ Served(Request("/twilio", FALSE, NoData, clock), Failed(call_state))
    /\ signature' = "unchecked"
    /\ UNCHANGED <<clock, pending>>

\* POST /end
EndRequest ==
    /\ Served(Request("/end", TRUE, NoData, clock), end_call(call_state, clock))
    /\ signature' = "unchecked"
    /\ UNCHANGED <<clock, pending>>

Next ==
    \/ Tick
    \/ TwilioRequest
    \/ TwilioUnsigned
    \/ TwilioMalformed
    \/ EndRequest

Spec == Init /\ [][Next]_vars

NextSigned ==
    \/ Tick
    \/ TwilioRequest
    \/ TwilioMalformed
    \/ EndRequest

\* The same program with the history of exchanges recorded, for requests
\* that Twilio signed.
SpecTraced == InitTraced /\ [][NextSigned]_vars

\* ---------------------------------------------------------------- gunicorn
\* The next connection is accepted by another worker process.
Switch ==
    /\ \E i \in DOMAIN idle :
          /\ call_state' = idle[i]
          /\ idle' = [idle EXCEPT ![i] = call_state]
    /\ UNCHANGED <<clock, request, response, summary, before, tracing, trace,
                   signature, pending, silent>>

NextGunicorn ==
    \/ Switch
    \/ TwilioRequest
    \/ TwilioMalformed
    \/ EndRequest

\* The deployed configuration, for signed requests that arrive within one
\* second.
SpecGunicorn == InitGunicorn /\ [][NextGunicorn]_vars

\* ----------------------------------------------------------------- asyncio
\* A handler suspended at an await: at which one, and what its start_time
\* test found if it is past the test.
Suspended(pc, first) == [pc |-> pc, first |-> first]

Without(seq, i) == SubSeq(seq, 1, i - 1) \o SubSeq(seq, i + 1, Len(seq))

\* A /twilio request arrives while others are in flight; its handler starts
\* and awaits request.form().
Arrive ==
    /\ Len(pending) < MaxInFlight
    /\ pending' = Append(pending, Suspended("form", FALSE))
    /\ UNCHANGED <<call_state, clock, request, response, summary, before, tracing,
                   trace, signature, idle, silent>>

\* The event loop resumes one of the suspended handlers, which runs without
\* interruption to its next await or to its return.  request.form() raises
\* (readable = FALSE) or returns the form.
Resume ==
    \E i \in DOMAIN pending, readable \in BOOLEAN, data \in FormData,
       valid \in BOOLEAN, lag \in SummaryLags :
       LET h == pending[i]
           first == IF h.pc = "check" THEN h.first
                                       ELSE call_state.start_time = PyNone
           r == IF readable THEN Body(first, call_state, data, clock, clock + lag)
                            ELSE Failed(call_state)
       IN  /\ h.pc = "check" => readable
           /\ IF readable /\ h.pc = "form" /\ "check" \in AwaitPoints
              THEN /\ data = NoData /\ valid /\ lag = 0
                   /\ pending' = [pending EXCEPT ![i] = Suspended("check", first)]
                   /\ UNCHANGED <<call_state, clock, request, response, summary,
                                  before, tracing, trace, signature, idle, silent>>
              ELSE /\ readable => Deliverable(call_state, data)
                   /\ ~readable => data = NoData /\ valid
                   /\ clock + lag <= MaxClock
                   /\ r.response # GoodbyeSilenceResponse => lag = 0
                   /\ clock' = clock + lag
                   /\ signature' = (IF readable THEN Verdict(valid) ELSE "unchecked")
                   /\ Served(Request("/twilio", readable, data, clock), r)
                   /\ pending' = Without(pending, i)

NextAsync ==
    \/ Tick
    \/ Arrive
    \/ Resume
    \/ EndRequest

\* One process serving requests that overlap.
SpecAsync == Init /\ [][NextAsync]_vars

\* ----------------------------------------------------------------- polling
\* The caller stops speaking: from now on every /twilio request is a Silence.
GoSilent ==
    /\ ~silent
    /\ Active(call_state)
    /\ silent' = TRUE
    /\ UNCHANGED <<call_state, clock, request, response, summary, before, tracing,
                   trace, signature, idle, pending>>

\* Twilio polls a silent caller: some seconds later, a /twilio request
\* without SpeechResult.
Poll ==
    /\ silent
    /\ Active(call_state)
    /\ \E d \in TickSteps, lag \in SummaryLags :
          /\ clock + d + lag <= MaxClock + PollWindow
          /\ LET r == handle_call(call_state, NoData, clock + d, clock + d + lag)
             IN  /\ r.response # GoodbyeSilenceResponse => lag = 0
                 /\ clock' = clock + d + lag
                 /\ signature' = Verdict(TRUE)
                 /\ Served(Request("/twilio", TRUE, NoData, clock + d), r)
    /\ UNCHANGED pending

\* Until the caller falls silent every event starts a session or carries
\* speech.
Speaking ==
    /\ TwilioRequest
    /\ EventOf(request', call_state) # "Silence"

NextPolling ==
    \/ Tick
    \/ Speaking
    \/ EndRequest
    \/ GoSilent
    \/ Poll

\* A call whose caller falls silent at some point while Twilio keeps polling.
SpecPolling == Init /\ [][NextPolling]_vars /\ WF_vars(Poll)

\* ================================================================== claims
LastEvent == EventOf(request, before)

LastDecision == Decision(response)

\* The session fields of the data model are those of a session not started.
SessionReset(cs) ==
    /\ cs.start_time = PyNone
    /\ cs.last_speech_time = PyNone
    /\ cs.silence_events = PyInt(0)
    /\ cs.user_utterances = PyInt(0)
    /\ cs.unanswered_prompts = PyInt(0)

\* The last n recorded exchanges.
Last(n) == SubSeq(trace, Len(trace) - n + 1, Len(trace))

Events(tr) == [i \in DOMAIN tr |-> tr[i].event]

Decisions(tr) == [i \in DOMAIN tr |-> tr[i].decision]

\* C1: once a session exists (Start), three consecutive Silence events with
\* no speech between them are answered Reprompt, Reprompt, Terminate, and the
\* summary logged by the third has silence_events = 3, whatever the times of
\* the events.  (Checked under SpecTraced.)
C1_ThreeSilencesTerminate ==
    (/\ Len(trace) >= 4
     /\ Events(Last(4)) = <<"Start", "Silence", "Silence", "Silence">>)
    => /\ Decisions(Last(4)) = <<"Greet", "Reprompt", "Reprompt", "Terminate">>
       /\ summary.silence_events = PyInt(3)

\* C2: while a session is active unanswered_prompts does not exceed the
\* threshold 3, and a Silence event that brings it to 3 or more is answered
\* Terminate (so no Silence event answered otherwise leaves it at 3 or more).
C2_UnansweredBounded ==
    /\ Active(call_state) => call_state.unanswered_prompts.v <= PromptLimit
    /\ (LastEvent = "Silence" /\ LastDecision # "Terminate")
          => call_state.unanswered_prompts.v < PromptLimit

\* C3: after any Terminate decision, the next /twilio event is answered Greet
\* and starts a session whose three counters are 0.  (Checked under
\* SpecTraced.)
C3_TerminateThenGreet ==
    (/\ Len(trace) >= 2
     /\ Last(2)[1].decision = "Terminate"
     /\ Last(2)[2].event \in {"Start", "SpeechRecognized", "Silence"})
    => /\ Last(2)[2].decision = "Greet"
       /\ call_state.user_utterances = PyInt(0)
       /\ call_state.silence_events = PyInt(0)
       /\ call_state.unanswered_prompts = PyInt(0)

\* C4: when log_summary has run to its reset, every field of call_state has
\* its initial value, whatever the fields held before.
C4_ResetToInitial ==
    summary.unanswered_prompts # NotLogged => call_state = InitialCallState

\* C5: POST /end is answered Terminate (status 200, end_call = True) in every
\* state, whatever the counters are and whether or not a session exists.
C5_EndAlwaysTerminates ==
    request.endpoint = "/end" => response = EndResponse /\ LastDecision = "Terminate"

\* C5 witness: /end as the very first event after Start was answered Terminate.
C5_Witness ==
    /\ request.endpoint = "/end"
    /\ Active(before)
    /\ before.user_utterances = PyInt(0)
    /\ before.silence_events = PyInt(0)
    /\ LastDecision = "Terminate"

\* The counters a request that terminates holds when it calls log_summary.
AtTermination(field) ==
    IF request.endpoint = "/end" THEN before[field]
    ELSE IF field = "silence_events" THEN PyInt(before[field].v + 1)
    ELSE IF field = "unanswered_prompts" THEN PyInt(before[field].v + 2)
    ELSE before[field]

\* C6: every Terminate decision of a session comes with a complete summary of
\* the values held just before the reset: duration = now - start_time and the three
\* counters as they were at termination; and the state is reset only when
\* the summary was produced.
C6_TerminateHasSummary ==
    /\ (LastDecision = "Terminate" /\ Active(before)) =>
          /\ summary.duration.t = "float"
          /\ summary.duration.v - (request.time - before.start_time.v) \in
                (IF request.endpoint = "/end" THEN {0} ELSE SummaryLags)
          /\ summary.silence_events = AtTermination("silence_events")
          /\ summary.user_utterances = AtTermination("user_utterances")
          /\ summary.unanswered_prompts = AtTermination("unanswered_prompts")
    /\ (Active(before) /\ ~Active(call_state)) =>
          summary.unanswered_prompts # NotLogged

\* C7: from the reset state, Start, SpeechRecognized("hello"), Silence,
\* Silence, Silence is answered Greet, Acknowledge("hello"), Reprompt,
\* Reprompt, Terminate, and the final summary has user_utterances = 1 and
\* silence_events = 3, whatever the times of the events.  (Checked under
\* SpecTraced.)
C7_RoundTrip ==
    (/\ Len(trace) >= 5
     /\ Events(Last(5)) =
           <<"Start", "SpeechRecognized", "Silence", "Silence", "Silence">>
     /\ Last(5)[2].speech = "hello")
    => /\ Decisions(Last(5)) =
             <<"Greet", "Acknowledge", "Reprompt", "Reprompt", "Terminate">>
       /\ Last(5)[2].response = "You said: hello"
       /\ summary.user_utterances = PyInt(1)
       /\ summary.silence_events = PyInt(3)

\* A Silence event handled 10 seconds or more after last_speech_time when
\* two unanswered prompts were already counted.
LongSilenceAfterTwo ==
    /\ LastEvent = "Silence"
    /\ before.unanswered_prompts = PyInt(2)
    /\ request.time - before.last_speech_time.v >= 10

\* C8: a Silence event 10 seconds or more after last_speech_time, with two
\* unanswered prompts already counted, is answered Terminate and the session
\* is reset.
C8_LongSilenceTerminates ==
    LongSilenceAfterTwo => LastDecision = "Terminate" /\ SessionReset(call_state)

\* C8 witness: such an event, arriving exactly 10 seconds after the last
\* speech, terminated the call.
C8_Witness ==
    /\ LongSilenceAfterTwo
    /\ request.time - before.last_speech_time.v = 10
    /\ LastDecision = "Terminate"

\* C9: unanswered_prompts is 0 right after a SpeechRecognized event handled
\* in an active session, and a Silence event that does not reset the session
\* does not decrease it.
C9_UnansweredResetAndMonotone ==
    /\ LastEvent = "SpeechRecognized" => call_state.unanswered_prompts = PyInt(0)
    /\ (LastEvent = "Silence" /\ Active(call_state))
          => call_state.unanswered_prompts.v >= before.unanswered_prompts.v

\* C9 witness: speech arrived after unanswered prompts and cleared them.
C9_Witness ==
    /\ LastEvent = "SpeechRecognized"
    /\ before.unanswered_prompts.v > 0
    /\ call_state.unanswered_prompts = PyInt(0)

\* C10: a /twilio event received when no session exists is answered Greet
\* with pause 5, sets start_time = last_speech_time = now and leaves the three
\* counters at 0, with or without a SpeechResult.
C10_StartGreets ==
    LastEvent = "Start" =>
       /\ response = GreetResponse
       /\ response.pause = PyInt(5)
       /\ call_state.start_time = PyDatetime(request.time)
       /\ call_state.last_speech_time = PyDatetime(request.time)
       /\ call_state.silence_events = PyInt(0)
       /\ call_state.user_utterances = PyInt(0)
       /\ call_state.unanswered_prompts = PyInt(0)

\* C10 witness: after a reset, a first webhook carrying speech was greeted.
C10_Witness ==
    /\ LastEvent = "Start"
    /\ before.silence_duration = PyNone
    /\ request.data.SpeechResult = "hello"
    /\ response = GreetResponse
    /\ call_state.user_utterances = PyInt(0)

\* C11: a Start event (the first webhook of a call) delivered again while
\* the session it opened exists is answered Greet again and changes no field
\* of call_state.  (Checked under SpecTraced.)
C11_StartIdempotent ==
    (/\ Len(trace) >= 2
     /\ Last(2)[1].event = "Start"
     /\ Last(2)[2].event \in {"SpeechRecognized", "Silence"}
     /\ Last(2)[2].speech = Last(2)[1].speech)
    => /\ Last(2)[2].decision = "Greet"
       /\ call_state = before

\* C12: every event (first webhook, speech, silence, /end, with or without
\* a session) is answered with status 200 and exactly one of the decisions
\* Greet, Acknowledge, Reprompt, Terminate, never with an error.
C12_Total ==
    LastEvent \in {"Start", "SpeechRecognized", "Silence", "ExplicitEnd"} =>
       /\ response.status = 200
       /\ LastDecision \in {"Greet", "Acknowledge", "Reprompt", "Terminate"}

\* C12 witness: /end with no active session, after a previous call's reset,
\* was answered Terminate.
C12_Witness ==
    /\ LastEvent = "ExplicitEnd"
    /\ ~Active(before)
    /\ before.silence_duration = PyNone
    /\ LastDecision = "Terminate"

\* Seconds between last_speech_time and the last request.
SilenceElapsed == request.time - before.last_speech_time.v

\* A counter as the last request left it, read from the summary when the
\* request ended the call (and so reset the counter).
AfterSilence(field) ==
    IF LastDecision = "Terminate" THEN summary[field] ELSE call_state[field]

\* C13: a Silence event handled in an active session adds exactly 1 to
\* silence_events, and to unanswered_prompts exactly 2 when now -
\* last_speech_time >= 10 seconds and exactly 1 otherwise; when it does not
\* end the call it is answered with the 'quiet for a while' reprompt in the
\* first case and 'Are you still there?' in the second.
C13_SilenceCounts ==
    LastEvent = "Silence" =>
       /\ AfterSilence("silence_events") = PyInt(before.silence_events.v + 1)
       /\ AfterSilence("unanswered_prompts") =
             PyInt(before.unanswered_prompts.v + (IF SilenceElapsed >= 10 THEN 2 ELSE 1))
       /\ LastDecision # "Terminate" =>
             response = (IF SilenceElapsed >= 10 THEN QuietResponse
                                                 ELSE StillThereResponse)

\* C13 witness: a first Silence 10 seconds or more after the last speech was
\* counted twice and answered with the 'quiet for a while' reprompt.
C13_Witness ==
    /\ LastEvent = "Silence"
    /\ SilenceElapsed >= 10
    /\ before.unanswered_prompts = PyInt(0)
    /\ call_state.unanswered_prompts = PyInt(2)
    /\ call_state.silence_events = PyInt(before.silence_events.v + 1)
    /\ response = QuietResponse

\* C14: a SpeechRecognized event handled in an active session adds exactly
\* 1 to user_utterances, sets unanswered_prompts to 0 and last_speech_time to
\* now, is answered Acknowledge echoing the text, and leaves start_time and
\* silence_events as they were.
C14_SpeechEffect ==
    LastEvent = "SpeechRecognized" =>
       /\ call_state.user_utterances = PyInt(before.user_utterances.v + 1)
       /\ call_state.unanswered_prompts = PyInt(0)
       /\ call_state.last_speech_time = PyDatetime(request.time)
       /\ response = AckResponse(request.data.SpeechResult)
       /\ LastDecision = "Acknowledge"
       /\ call_state.start_time = before.start_time
       /\ call_state.silence_events = before.silence_events

\* C14 witness: speech arrived after silences, later than the last speech.
C14_Witness ==
    /\ LastEvent = "SpeechRecognized"
    /\ before.silence_events.v > 0
    /\ request.time > before.last_speech_time.v
    /\ response = AckResponse("hello")
    /\ call_state.silence_events = before.silence_events

\* C15: within one session start_time does not change after the first event
\* set it, last_speech_time never moves backwards and never exceeds the time
\* of the latest handled request, and Silence events leave last_speech_time
\* as it was.
C15_TimesStable ==
    /\ (Active(before) /\ Active(call_state)) =>
          /\ call_state.start_time = before.start_time
          /\ call_state.last_speech_time.v >= before.last_speech_time.v
    /\ Active(call_state) => call_state.last_speech_time.v <= request.time
    /\ (LastEvent = "Silence" /\ Active(call_state)) =>
          call_state.last_speech_time = before.last_speech_time

\* C15 witness: a second utterance moved last_speech_time forward and left
\* start_time alone.
C15_Witness ==
    /\ LastEvent = "SpeechRecognized"
    /\ before.user_utterances.v >= 1
    /\ call_state.last_speech_time.v > before.last_speech_time.v
    /\ call_state.start_time = before.start_time
    /\ call_state.start_time.v < before.last_speech_time.v

\* C16: under gunicorn with 2 workers the events of one call are applied to
\* one session whichever worker handles each request: Start followed by
\* SpeechRecognized is answered Greet, then Acknowledge.  (Checked under
\* SpecGunicorn; it holds under SpecTraced, with one process.)
C16_OneSessionAcrossWorkers ==
    (/\ Len(trace) >= 2
     /\ Last(2)[1].event = "Start"
     /\ Last(2)[2].event \in {"Start", "SpeechRecognized", "Silence"}
     /\ Last(2)[2].speech = "hello")
    => /\ Last(2)[1].decision = "Greet"
       /\ Last(2)[2].decision = "Acknowledge"

\* C18: a /twilio request whose signature fails validation is rejected: it
\* gets no normal decision and leaves call_state as it was.
C18_InvalidSignatureRejected ==
    (request.endpoint = "/twilio" /\ signature = "invalid") =>
       /\ LastDecision = "Error"
       /\ call_state = before

\* C19: a /twilio request whose handling fails (its form cannot be read, or
\* the handler raised and the except branch answered) gets the apology with
\* pause 5 and no end_call as a normal HTTP 200 response, and call_state is
\* what it was before the request.
C19_FailureApologises ==
    (/\ request.endpoint = "/twilio"
     /\ (~request.readable \/ response = ApologyResponse))
    => /\ response = ApologyResponse
       /\ LastDecision = "Apology"
       /\ response.status = 200
       /\ response.pause = PyInt(5)
       /\ response.end_call = PyNone
       /\ call_state = before

\* A request that cannot be read arrives in a session that has counted events.
C19_Witness ==
    /\ request.endpoint = "/twilio" /\ ~request.readable
    /\ Active(before)
    /\ before.silence_events.v > 0 /\ before.user_utterances.v > 0
    /\ response = ApologyResponse
    /\ call_state = before

\* The last request was handled as the serial handler handles it in the state
\* the request found.
SerialStep ==
    /\ (request.endpoint = "/twilio" /\ request.readable) =>
          \E lag \in SummaryLags :
             LET r == handle_call(before, request.data, request.time, request.time + lag)
             IN  /\ call_state = r.state
                 /\ response = r.response
                 /\ summary = r.logged
    /\ (request.endpoint = "/twilio" /\ ~request.readable) =>
          call_state = before /\ response = ApologyResponse
    /\ request.endpoint = "/end" =>
          LET r == end_call(before, request.time)
          IN  call_state = r.state /\ response = r.response /\ summary = r.logged

\* C17: with several requests in flight in one process, every handler reads
\* and writes call_state in one uninterrupted run, so each request takes the
\* state from what it finds to what the serial handler makes of it (the run
\* is a serial run in the order of completion); no request is greeted while
\* a session exists and no counter update is lost.  (Checked under
\* SpecAsync.)
C17_Serializable ==
    /\ SerialStep
    /\ LastDecision = "Greet" => ~Active(before) /\ Active(call_state)
    /\ (LastEvent = "Silence" /\ Active(call_state)) =>
          call_state.silence_events.v = before.silence_events.v + 1
    /\ LastEvent = "SpeechRecognized" =>
          call_state.user_utterances.v = before.user_utterances.v + 1

\* C17 witness: a speech request was handled in an existing session while
\* two other requests were in flight.
C17_Witness ==
    /\ Len(pending) = 2
    /\ LastEvent = "SpeechRecognized"
    /\ LastDecision = "Acknowledge"
    /\ before.silence_events.v > 0

\* C21: in every reachable state start_time is None exactly when
\* last_speech_time is None, also after a request whose summary step failed;
\* in a session both hold a datetime, so current_time - last_speech_time of
\* the silence branch is defined.
C21_TimesSetTogether ==
    /\ (call_state.start_time = PyNone) <=> (call_state.last_speech_time = PyNone)
    /\ Active(call_state) =>
          /\ call_state.start_time.t = "datetime"
          /\ call_state.last_speech_time.t = "datetime"

\* POST /end in a session whose summary raised: nothing was reset and both
\* times are still set.
C21_Witness ==
    /\ request.endpoint = "/end"
    /\ Active(before)
    /\ summary.silence_duration = NotLogged
    /\ call_state.start_time.t = "datetime"
    /\ call_state.last_speech_time.t = "datetime"

\* C22: /twilio answers Terminate only to a Silence event handled 10 seconds
\* or more after last_speech_time whose increments bring unanswered_prompts
\* to 3 or more; a first webhook, a SpeechRecognized event and a Silence event
\* less than 10 seconds after the last speech are never answered Terminate,
\* whatever the counters hold.
C22_TerminateOnlyLongSilence ==
    /\ (request.endpoint = "/twilio" /\ LastDecision = "Terminate") =>
          /\ LastEvent = "Silence"
          /\ SilenceElapsed >= 10
          /\ summary.unanswered_prompts.v >= 3
          /\ summary.unanswered_prompts.v = before.unanswered_prompts.v + 2
    /\ (\/ LastEvent \in {"Start", "SpeechRecognized"}
        \/ LastEvent = "Silence" /\ SilenceElapsed < 10)
          => LastDecision # "Terminate"

\* Short silences took unanswered_prompts to the threshold without ending
\* the call, and a later long silence ended it.
C22_Witness ==
    /\ request.endpoint = "/twilio"
    /\ LastEvent = "Silence"
    /\ LastDecision = "Terminate"
    /\ before.unanswered_prompts.v >= 3
    /\ SilenceElapsed >= 10

\* C20: once the caller is silent in an active session and the polls keep
\* coming, each later than the one before, a Terminate decision is eventually
\* returned and the session reset.  (Checked under SpecPolling.)
C20_SilenceEndsCall ==
    (silent /\ Active(call_state))
       ~> (LastDecision = "Terminate" /\ SessionReset(call_state))

\* C20 witness: a poll of a silent caller ended the call and reset the
\* session.
C20_Witness ==
    /\ silent
    /\ LastEvent = "Silence"
    /\ LastDecision = "Terminate"
    /\ SessionReset(call_state)
    /\ clock > MaxClock

====
